---- MODULE Spec2Model ----
(***************************************************************************)
(* The EDF decoder of src/src/edf.js: the ES-module class EDF (lines       *)
(* 10-231) and the CommonJS factory function EDF (lines 241-397), run side *)
(* by side on the same buffers.                                            *)
(*                                                                         *)
(* A string is a sequence of one-character strings.  A JavaScript number   *)
(* is a pair <<n, d>>: the fraction n/d in lowest terms with d > 0, and    *)
(* <<1,0>>, <<-1,0>>, <<0,0>> for Infinity, -Infinity and NaN.  The value  *)
(* undefined is <<"undefined">>; a property that holds an object or is     *)
(* absent is a set with that object or the empty set.                      *)
(***************************************************************************)
EXTENDS Integers, Sequences, FiniteSets, TLC

VARIABLES edf, cjs, res, last, ncalls, direct

vars == <<edf, cjs, res, last, ncalls, direct>>

(***************************************************************************)
(* Bounds of the model.                                                    *)
(***************************************************************************)
MaxChannels == 2

MaxRecords == 2

MaxCalls == 2

(***************************************************************************)
(* JavaScript values.                                                      *)
(***************************************************************************)
Undefined == <<"undefined">>

NaN == <<0, 0>>

Abs(n) == IF n < 0 THEN -n ELSE n

Sign(n) == IF n < 0 THEN -1 ELSE IF n > 0 THEN 1 ELSE 0

RECURSIVE Gcd(_, _)
Gcd(a, b) == IF b = 0 THEN a ELSE Gcd(b, a % b)

Norm(n, d) ==
  IF d = 0 THEN <<Sign(n), 0>>
  ELSE LET g == Gcd(Abs(n), Abs(d))
       IN  <<(Sign(d) * n) \div g, Abs(d) \div g>>

Num(n) == <<n, 1>>

IsNaN(x) == x = Undefined \/ x = NaN

IsFinite(x) == ~IsNaN(x) /\ x[2] # 0

Mul(x, y) == IF IsNaN(x) \/ IsNaN(y) THEN NaN ELSE Norm(x[1] * y[1], x[2] * y[2])

Div(x, y) ==
  IF IsNaN(x) \/ IsNaN(y) THEN NaN
  ELSE IF y[2] = 0 THEN (IF x[2] = 0 THEN NaN ELSE Num(0))
  ELSE IF y[1] = 0 THEN Norm(Sign(x[1]), 0)
  ELSE Norm(x[1] * y[2] * Sign(y[1]), x[2] * Abs(y[1]))

Add(x, y) ==
  IF IsNaN(x) \/ IsNaN(y) THEN NaN
  ELSE IF x[2] = 0 /\ y[2] = 0 THEN (IF x[1] = y[1] THEN x ELSE NaN)
  ELSE IF x[2] = 0 THEN x
  ELSE IF y[2] = 0 THEN y
  ELSE Norm(x[1] * y[2] + y[1] * x[2], x[2] * y[2])

Sub(x, y) == IF IsNaN(y) THEN NaN ELSE Add(x, <<-y[1], y[2]>>)

\* x == y on numbers: NaN equals nothing.
Eq(x, y) == ~IsNaN(x) /\ ~IsNaN(y) /\ x = y

\* x < y on numbers: false when either is NaN.
Lt(x, y) == ~IsNaN(x) /\ ~IsNaN(y) /\ x # y /\ x[1] * y[2] < y[1] * x[2]

\* The number of iterations of for (let c=0; c < x; c++), x finite or NaN.
LoopCount(x) ==
  IF ~IsFinite(x) \/ x[1] <= 0 THEN 0
  ELSE (x[1] + x[2] - 1) \div x[2]

\* ToIntegerOrInfinity of a finite number or NaN: truncation towards zero.
ToInteger(x) ==
  IF ~IsFinite(x) THEN 0
  ELSE Sign(x[1]) * (Abs(x[1]) \div x[2])

(***************************************************************************)
(* Strings.                                                                *)
(***************************************************************************)
Spaces(n) == [i \in 1..n |-> " "]

Pad(s, w) == s \o Spaces(w - Len(s))

DigitChars == <<"0", "1", "2", "3", "4", "5", "6", "7", "8", "9">>

DigitValue(ch) == (CHOOSE i \in 1..10 : DigitChars[i] = ch) - 1

IsDigit(ch) == \E i \in 1..10 : DigitChars[i] = ch

RECURSIVE NumStr(_)
NumStr(n) ==
  IF n < 10 THEN <<DigitChars[n + 1]>>
  ELSE NumStr(n \div 10) \o <<DigitChars[(n % 10) + 1]>>

Min(a, b) == IF a < b THEN a ELSE b

Max(a, b) == IF a > b THEN a ELSE b

\* String.prototype.substring(start, end): both clipped to [0, length].
substring(string, start, end) ==
  LET a == Max(0, Min(start, Len(string)))
      b == Max(0, Min(end, Len(string)))
  IN  SubSeq(string, Min(a, b) + 1, Max(a, b))

\* String.prototype.slice(0, n).
slice_prefix(string, n) == SubSeq(string, 1, Min(n, Len(string)))

\* String.prototype.trim().
trim(string) ==
  LET ink == {i \in 1..Len(string) : string[i] # " "}
  IN  IF ink = {} THEN <<>>
      ELSE SubSeq(string, CHOOSE i \in ink : \A j \in ink : i <= j,
                          CHOOSE i \in ink : \A j \in ink : i >= j)

\* utils.toString: the text of the field without its padding.
toString(string) == trim(string)

RECURSIVE DecimalValue(_)
DecimalValue(digits) ==
  IF digits = <<>> THEN 0
  ELSE 10 * DecimalValue(SubSeq(digits, 1, Len(digits) - 1))
       + DigitValue(digits[Len(digits)])

\* Number(string) on a field of decimal digits: blank is 0, other text NaN.
Number(string) ==
  LET t == trim(string)
  IN  IF \A i \in 1..Len(t) : IsDigit(t[i]) THEN Num(DecimalValue(t)) ELSE NaN

Coerce(type, string) == IF type = "Number" THEN Number(string) ELSE toString(string)

(***************************************************************************)
(* Program constants.                                                      *)
(***************************************************************************)
header_bytes == 256

bytes_per_sample == 2

\* this.fields of the Document, in insertion order.
fields == <<
  [name |-> "version", type |-> "toString", len |-> 8],
  [name |-> "pid", type |-> "toString", len |-> 80],
  [name |-> "rid", type |-> "toString", len |-> 80],
  [name |-> "startdate", type |-> "toString", len |-> 8],
  [name |-> "starttime", type |-> "toString", len |-> 8],
  [name |-> "num_header_bytes", type |-> "Number", len |-> 8],
  [name |-> "reserved", type |-> "toString", len |-> 44],
  [name |-> "num_records", type |-> "Number", len |-> 8],
  [name |-> "record_duration", type |-> "Number", len |-> 8],
  [name |-> "num_channels", type |-> "Number", len |-> 4] >>

\* Channel().fields, in insertion order.
channel_fields == <<
  [name |-> "label", type |-> "toString", len |-> 16],
  [name |-> "transducer", type |-> "toString", len |-> 80],
  [name |-> "physical_dimension", type |-> "toString", len |-> 8],
  [name |-> "physical_minimum", type |-> "Number", len |-> 8],
  [name |-> "physical_maximum", type |-> "Number", len |-> 8],
  [name |-> "digital_minimum", type |-> "Number", len |-> 8],
  [name |-> "digital_maximum", type |-> "Number", len |-> 8],
  [name |-> "prefiltering", type |-> "toString", len |-> 80],
  [name |-> "num_samples_per_record", type |-> "Number", len |-> 8],
  [name |-> "reserved", type |-> "toString", len |-> 32] >>

(***************************************************************************)
(* Input files.  A buffer is the text of its header and channel table      *)
(* (one byte per character), the 16-bit samples that follow, and odd, the  *)
(* number (0 or 1) of bytes left over after the last whole sample.         *)
(* The inputs are well-formed headers: decimal fields, num_header_bytes =  *)
(* 256 * (num_channels + 1), channel c with c + 2 samples per record, and  *)
(* sample i of the blob holding the value i.                               *)
(***************************************************************************)
TypeText(t) ==
  CASE t = "EDF+C" -> <<"E", "D", "F", "+", "C">>
    [] t = "EDF+D" -> <<"E", "D", "F", "+", "D">>
    [] OTHER -> <<>>

AnnotationsLabel ==
  <<"E", "D", "F", " ", "A", "n", "n", "o", "t", "a", "t", "i", "o", "n", "s">>

\* The text written for field name of channel c (0-based) of input p.
ChannelFieldText(p, name, c) ==
  CASE name = "label" ->
         IF p.ann /\ c = p.nch - 1 THEN AnnotationsLabel ELSE <<"C", "h">> \o NumStr(c)
    [] name = "transducer" -> <<"T">> \o NumStr(c)
    [] name = "physical_dimension" -> <<"u", "V">>
    [] name = "physical_minimum" -> NumStr(100 + c)
    [] name = "physical_maximum" -> NumStr(200 + c)
    [] name = "digital_minimum" -> NumStr(300 + c)
    [] name = "digital_maximum" -> NumStr(400 + c)
    [] name = "prefiltering" -> <<"H", "P">> \o NumStr(c)
    [] name = "num_samples_per_record" -> NumStr(c + 2)
    [] OTHER -> <<"R">> \o NumStr(c)

RECURSIVE Concat(_)
Concat(seqs) == IF seqs = <<>> THEN <<>> ELSE Head(seqs) \o Concat(Tail(seqs))

HeaderText(p) ==
  Pad(<<"0">>, 8) \o Pad(<<"X">>, 80) \o Pad(<<"S", "t", "a", "r", "t">>, 80)
  \o Pad(<<"0", "1", ".", "0", "2", ".", "0", "3">>, 8)
  \o Pad(<<"0", "4", ".", "0", "5", ".", "0", "6">>, 8)
  \o Pad(NumStr(header_bytes * (p.nch + 1)), 8)
  \o Pad(TypeText(p.typ), 44)
  \o Pad(NumStr(p.nrec), 8) \o Pad(NumStr(p.dur), 8) \o Pad(NumStr(p.nch), 4)

\* The channel table as the format lays it out: column by column.
ChannelTableText(p) ==
  Concat([k \in 1..Len(channel_fields) |->
    Concat([i \in 1..p.nch |->
      Pad(ChannelFieldText(p, channel_fields[k].name, i - 1), channel_fields[k].len)])])

RECURSIVE SumTo(_, _)
SumTo(f, n) == IF n = 0 THEN 0 ELSE f[n] + SumTo(f, n - 1)

\* Samples in one record of input p, and in its whole declared blob.
RecordSamples(p) == SumTo([i \in 1..p.nch |-> i + 1], p.nch)

ExpectedSamples(p) == RecordSamples(p) * p.nrec

\* Whole samples actually in the file.
ActualSamples(p) ==
  CASE p.size = "short" -> Max(ExpectedSamples(p) - 1, 0)
    [] p.size = "long" -> ExpectedSamples(p) + 1
    [] OTHER -> ExpectedSamples(p)

MakeBuffer(p) ==
  [text |-> HeaderText(p) \o ChannelTableText(p),
   samples |-> [i \in 1..ActualSamples(p) |-> i - 1],
   odd |-> IF p.size = "odd" THEN 1 ELSE 0]

\* Files of every channel count, with the largest record count.
ChannelInputs ==
  {[nch |-> n, nrec |-> MaxRecords, size |-> "exact", typ |-> "EDF+C", ann |-> n > 0,
    dur |-> 1] : n \in 0..MaxChannels}

\* Files of every record count, with the largest channel count.
RecordInputs ==
  {[nch |-> MaxChannels, nrec |-> r, size |-> "exact", typ |-> "EDF+C", ann |-> TRUE,
    dur |-> 1] : r \in 1..MaxRecords}

\* Files whose blob is one sample short, one sample long, or one byte long.
SizeInputs ==
  {[nch |-> MaxChannels, nrec |-> MaxRecords, size |-> s, typ |-> "EDF+C",
    ann |-> TRUE, dur |-> 2] : s \in {"short", "long", "odd"}}

\* One-channel files of the other types, with and without annotations.
TypeInputs ==
  {[nch |-> 1, nrec |-> 1, size |-> "exact", typ |-> "", ann |-> TRUE, dur |-> 1],
   [nch |-> 1, nrec |-> 1, size |-> "exact", typ |-> "EDF+D", ann |-> TRUE, dur |-> 1],
   [nch |-> 1, nrec |-> 1, size |-> "exact", typ |-> "EDF+C", ann |-> FALSE, dur |-> 1]}

Inputs == ChannelInputs \cup RecordInputs \cup SizeInputs \cup TypeInputs

Buffers == [p \in Inputs |-> MakeBuffer(p)]

byteLength(buffer) == Len(buffer.text) + 2 * Len(buffer.samples) + buffer.odd

\* utils.string_from_buffer: the bytes [start, end) of the buffer as text.
string_from_buffer(buffer, start, end) ==
  substring(buffer.text, ToInteger(start), ToInteger(end))

\* The 16-bit word at a byte offset: a sample of the blob, or -1 for a word
\* that lies in the text or across two samples.
WordAt(buffer, offset) ==
  LET q == offset - Len(buffer.text)
  IN  IF q >= 0 /\ q % 2 = 0 /\ q \div 2 < Len(buffer.samples)
      THEN buffer.samples[(q \div 2) + 1] ELSE -1

\* new Int16Array(buffer, byteOffset, length): the set with the view, or the
\* empty set where the constructor throws a RangeError.
Int16Array(buffer, byteOffset, length) ==
  LET off == ToInteger(byteOffset)
      len == ToInteger(length)
      neg(x) == IsFinite(x) /\ x[1] < 0 /\ ToInteger(x) # 0
  IN  IF neg(byteOffset) \/ neg(length) \/ off % 2 # 0
         \/ off + 2 * len > byteLength(buffer)
      THEN {}
      ELSE {[i \in 1..len |-> WordAt(buffer, off + 2 * (i - 1))]}

\* TypedArray.prototype.slice(begin, end) for begin, end numbers.
slice(blob, begin, end) ==
  LET rel(x) == IF ToInteger(x) < 0 THEN Max(Len(blob) + ToInteger(x), 0)
                ELSE Min(ToInteger(x), Len(blob))
  IN  SubSeq(blob, rel(begin) + 1, rel(end))

(***************************************************************************)
(* Channel (channel.js): its fields are undefined until the channel table  *)
(* is decoded; init allocates one entry per record and derives the         *)
(* sampling rate; set_record stores the samples of one record.             *)
(***************************************************************************)
NewChannel ==
  [label |-> Undefined, transducer |-> Undefined, physical_dimension |-> Undefined,
   physical_minimum |-> Undefined, physical_maximum |-> Undefined,
   digital_minimum |-> Undefined, digital_maximum |-> Undefined,
   prefiltering |-> Undefined, num_samples_per_record |-> Undefined,
   reserved |-> Undefined, sampling_rate |-> Undefined, blob |-> {}]

TheOne(S) == CHOOSE x \in S : TRUE

init(channel, num_records, record_duration) ==
  [channel EXCEPT
     !.blob = {[r \in 1..LoopCount(num_records) |-> <<>>]},
     !.sampling_rate = Div(channel.num_samples_per_record, record_duration)]

set_record(channel, r, data) ==
  IF channel.blob = {} \/ r + 1 > Len(TheOne(channel.blob)) THEN channel
  ELSE [channel EXCEPT !.blob = {[TheOne(channel.blob) EXCEPT ![r + 1] = data]}]

\* utils.parseDateTime and utils.parseAnnotations, left uninterpreted.
parseDateTime(startdate, starttime) == <<startdate, starttime>>

parseAnnotations(bytes) == [parsed |-> bytes]

\* utils.assert(condition, message) throws unless the condition holds.
assert(condition) == condition

(***************************************************************************)
(* Documents, and the outcome of a call: the document as the call left it, *)
(* return or raise, the calls made on the way, and the value returned.     *)
(***************************************************************************)
NewDocument(channels_set) ==
  [version |-> Undefined, pid |-> Undefined, rid |-> Undefined,
   startdate |-> Undefined, starttime |-> Undefined, num_header_bytes |-> Undefined,
   reserved |-> Undefined, num_records |-> Undefined, record_duration |-> Undefined,
   num_channels |-> Undefined, startdatetime |-> Undefined,
   channels |-> <<>>, channels_set |-> channels_set,
   channel_by_label |-> {}, duration |-> Undefined, sampling_rate |-> {}]

\* new EDF(): the constructor sets this.channels = [].
NewEDF == NewDocument(TRUE)

\* EDF(): the factory sets no channels property.
NewCJS == NewDocument(FALSE)

Null == <<"null">>

Event(op, c, r, key) == [op |-> op, c |-> c, r |-> r, key |-> key]

Call(op) == Event(op, -1, -1, <<>>)

Ret(doc, calls, value) ==
  [doc |-> doc, outcome |-> "return", error |-> "", calls |-> calls, value |-> value]

Raise(doc, calls, error) ==
  [doc |-> doc, outcome |-> "raise", error |-> error, calls |-> calls, value |-> Undefined]

\* The outcome of a callee, seen by a caller that made calls before it.
After(calls, r) == [r EXCEPT !.calls = calls \o r.calls]

(***************************************************************************)
(* get type                                                                *)
(***************************************************************************)
type(doc) ==
  LET t == trim(slice_prefix(doc.reserved, 5))
  IN  IF t = <<>> THEN <<"E", "D", "F">> ELSE t

(***************************************************************************)
(* read_header_from_string                                                 *)
(***************************************************************************)
RECURSIVE read_header_fields(_, _, _, _)
read_header_fields(doc, string, k, start) ==
  IF k > Len(fields) THEN doc
  ELSE LET end == start + fields[k].len
       IN  read_header_fields(
             [doc EXCEPT ![fields[k].name] =
                Coerce(fields[k].type, substring(string, start, end))],
             string, k + 1, end)

read_header_from_string(doc, string) ==
  LET d == read_header_fields(doc, string, 1, 0)
  IN  [d EXCEPT !.startdatetime = parseDateTime(d.startdate, d.starttime)]

(***************************************************************************)
(* read_channel_header_from_string                                         *)
(***************************************************************************)
\* The two nested loops over one running offset: field k (1-based), then
\* channel c (0-based).
RECURSIVE decode_loop(_, _, _, _, _, _)
decode_loop(channels, string, N, k, c, start) ==
  IF k > Len(channel_fields) THEN channels
  ELSE IF c >= N THEN decode_loop(channels, string, N, k + 1, 0, start)
  ELSE LET end == start + channel_fields[k].len
       IN  decode_loop(
             [channels EXCEPT ![c + 1][channel_fields[k].name] =
                Coerce(channel_fields[k].type, substring(string, start, end))],
             string, N, k, c + 1, end)

\* The same loops nested the other way round: channel, then field.
RECURSIVE decode_loop_by_row(_, _, _, _, _, _)
decode_loop_by_row(channels, string, N, k, c, start) ==
  IF c >= N THEN channels
  ELSE IF k > Len(channel_fields) THEN decode_loop_by_row(channels, string, N, 1, c + 1, start)
  ELSE LET end == start + channel_fields[k].len
       IN  decode_loop_by_row(
             [channels EXCEPT ![c + 1][channel_fields[k].name] =
                Coerce(channel_fields[k].type, substring(string, start, end))],
             string, N, k + 1, c, end)

decode_channel_fields_by_row(channels, string, N) ==
  decode_loop_by_row(channels, string, N, 1, 0, 0)

decode_channel_fields(channels, string, N) ==
  decode_loop(channels, string, N, 1, 0, 0)

\* The property name an object uses for a label.
KeyOf(label) ==
  IF label = Undefined THEN <<"u", "n", "d", "e", "f", "i", "n", "e", "d">> ELSE label

\* channel_by_label = {}; then one assignment per channel of the array:
\* keys in insertion order, at[key] the index (1-based) of the channel held.
RECURSIVE index_from(_, _, _)
index_from(channels, i, acc) ==
  IF i > Len(channels) THEN acc
  ELSE LET key == KeyOf(channels[i].label)
       IN  index_from(channels, i + 1,
             [keys |-> IF key \in DOMAIN acc.at THEN acc.keys ELSE Append(acc.keys, key),
              at |-> (key :> i) @@ acc.at])

index_channels(channels) == index_from(channels, 1, [keys |-> <<>>, at |-> <<>>])

\* class EDF
read_channel_header_from_string(doc, string) ==
  IF doc.num_channels = Num(0) THEN Ret(doc, <<>>, Undefined)
  ELSE LET N == LoopCount(doc.num_channels)
           pushed == doc.channels \o [c \in 1..N |-> NewChannel]
           decoded == decode_channel_fields(pushed, string, N)
       IN  IF pushed = <<>>
           THEN Raise([doc EXCEPT !.channels = pushed], <<>>, "TypeError")
           ELSE Ret([doc EXCEPT !.channels = decoded,
                                !.channel_by_label = {index_channels(decoded)}],
                    <<>>, Undefined)

\* function EDF
read_channel_header_from_string_cjs(doc, string) ==
  LET N == LoopCount(doc.num_channels)
      pushed == [c \in 1..N |-> NewChannel]
      decoded == decode_channel_fields(pushed, string, N)
  IN  IF pushed = <<>>
      THEN Raise([doc EXCEPT !.channels = pushed, !.channels_set = TRUE], <<>>, "TypeError")
      ELSE Ret([doc EXCEPT !.channels = decoded, !.channels_set = TRUE,
                           !.channel_by_label = {index_channels(decoded)}],
               <<>>, Undefined)

(***************************************************************************)
(* check_blob_size                                                         *)
(***************************************************************************)
RECURSIVE sum_samples_per_record(_, _)
sum_samples_per_record(channels, N) ==
  IF N = 0 THEN Num(0)
  ELSE Add(sum_samples_per_record(channels, N - 1), channels[N].num_samples_per_record)

samples_in_buffer(doc, buffer, divisor) ==
  Div(Sub(Num(byteLength(buffer)), doc.num_header_bytes), Num(divisor))

\* The duration computed from the declared record count instead.
blob_duration_expected(record_duration, samples_in_blob, samples_per_record, expected_samples) ==
  Div(Mul(record_duration, expected_samples), samples_per_record)

blob_duration(record_duration, samples_in_blob, samples_per_record, expected_samples) ==
  Div(Mul(record_duration, samples_in_blob), samples_per_record)

check_blob_size(doc, buffer) ==
  LET N == LoopCount(doc.num_channels)
      samples_per_record == sum_samples_per_record(doc.channels, N)
      expected_samples == Mul(samples_per_record, doc.num_records)
      samples_in_blob == samples_in_buffer(doc, buffer, 2)
      d == [doc EXCEPT !.duration =
              blob_duration(doc.record_duration, samples_in_blob,
                            samples_per_record, expected_samples)]
  IN  IF N > Len(doc.channels) THEN Raise(doc, <<>>, "TypeError")
      ELSE IF assert(Eq(samples_in_blob, expected_samples))
      THEN Ret(d, <<Event("return", -1, -1, samples_in_blob)>>, samples_in_blob)
      ELSE Raise(d, <<>>, "SizeMismatch")

check_blob_size_cjs(doc, buffer) == check_blob_size(doc, buffer)

(***************************************************************************)
(* read_blob_from_buffer                                                   *)
(***************************************************************************)
\* record_channel_map as an array: entry i + 1 of the sequence is map[i].
RECURSIVE record_channel_map(_, _)
record_channel_map(channels, N) ==
  IF N = 0 THEN <<Num(0)>>
  ELSE LET m == record_channel_map(channels, N - 1)
       IN  Append(m, Add(m[N], channels[N].num_samples_per_record))

\* array[i] for an index that may lie past the end.
At(array, i) == IF i + 1 \in DOMAIN array THEN array[i + 1] ELSE Undefined

\* The catch branch: the sample count recomputed, the duration recomputed
\* from the declared record count.
fallback_expected_duration(r, buffer) ==
  [doc |-> [r.doc EXCEPT !.duration = Mul(r.doc.record_duration, r.doc.num_records)],
   samples_in_blob |-> samples_in_buffer(r.doc, buffer, bytes_per_sample)]

\* The catch branch: the sample count recomputed, the document as
\* check_blob_size left it.
fallback(r, buffer) ==
  [doc |-> r.doc, samples_in_blob |-> samples_in_buffer(r.doc, buffer, bytes_per_sample)]

\* The bounds of the slice for record r of channel c (both 0-based).
record_window(r, c, samples_per_record, map) ==
  <<Add(Mul(Num(r), samples_per_record), At(map, c)),
    Add(Mul(Num(r), samples_per_record), At(map, c + 1))>>

\* The calls of the three loops, in the order the code makes them.
InitCalls(N) == [i \in 1..N |-> Event("init", i - 1, -1, <<>>)]

SetRecordCalls(N, R) ==
  [i \in 1..(N * R) |-> Event("set_record", (i - 1) % N, (i - 1) \div N, <<>>)]

SamplingRateCalls(index) ==
  IF index = {} THEN <<>>
  ELSE [i \in 1..Len(TheOne(index).keys) |->
          Event("sampling_rate", -1, -1, TheOne(index).keys[i])]

\* The loops with the channel loop outside the record loop.
blob_calls_by_channel(N, R, index) ==
  InitCalls(N)
  \o [i \in 1..(N * R) |-> Event("set_record", (i - 1) \div R, (i - 1) % R, <<>>)]
  \o <<Call("sampling_rate = {}")>> \o SamplingRateCalls(index)

blob_calls(N, R, index) ==
  InitCalls(N) \o SetRecordCalls(N, R)
  \o <<Call("sampling_rate = {}")>> \o SamplingRateCalls(index)

\* The effect of one call of the loops on the document.
apply_call(doc, e, blob, samples_per_record, map) ==
  CASE e.op = "init" ->
         [doc EXCEPT !.channels[e.c + 1] =
            init(doc.channels[e.c + 1], doc.num_records, doc.record_duration)]
    [] e.op = "set_record" ->
         LET w == record_window(e.r, e.c, samples_per_record, map)
         IN  [doc EXCEPT !.channels[e.c + 1] =
                set_record(doc.channels[e.c + 1], e.r, slice(blob, w[1], w[2]))]
    [] e.op = "sampling_rate = {}" -> [doc EXCEPT !.sampling_rate = {<<>>}]
    [] OTHER ->
         [doc EXCEPT !.sampling_rate =
            {(e.key :> doc.channels[TheOne(doc.channel_by_label).at[e.key]].sampling_rate)
             @@ TheOne(doc.sampling_rate)}]

RECURSIVE apply_calls(_, _, _, _, _, _)
apply_calls(doc, calls, i, blob, samples_per_record, map) ==
  IF i > Len(calls) THEN doc
  ELSE apply_calls(apply_call(doc, calls[i], blob, samples_per_record, map),
                   calls, i + 1, blob, samples_per_record, map)

read_blob_from_buffer_with(doc, buffer, checked) ==
  LET N == LoopCount(doc.num_channels)
      map == record_channel_map(doc.channels, N)
      samples_per_record == At(map, Len(doc.channels))
      sized == IF checked.outcome = "raise" THEN fallback(checked, buffer)
               ELSE [doc |-> checked.doc, samples_in_blob |-> checked.value]
      view == Int16Array(buffer, sized.doc.num_header_bytes, sized.samples_in_blob)
      calls == blob_calls(N, LoopCount(doc.num_records), doc.channel_by_label)
      entry == <<Call("check_blob_size")>> \o checked.calls
               \o (IF checked.outcome = "raise" THEN <<Call("catch")>> ELSE <<>>)
  IN  IF view = {} THEN Raise(sized.doc, entry, "RangeError")
      ELSE Ret(apply_calls(sized.doc, calls, 1, TheOne(view), samples_per_record, map),
               entry \o calls, Undefined)

\* class EDF
read_blob_from_buffer(doc, buffer) ==
  IF LoopCount(doc.num_channels) > Len(doc.channels) THEN Raise(doc, <<>>, "TypeError")
  ELSE read_blob_from_buffer_with(doc, buffer, check_blob_size(doc, buffer))

\* function EDF
read_blob_from_buffer_cjs(doc, buffer) ==
  IF LoopCount(doc.num_channels) > Len(doc.channels) THEN Raise(doc, <<>>, "TypeError")
  ELSE read_blob_from_buffer_with(doc, buffer, check_blob_size_cjs(doc, buffer))

(***************************************************************************)
(* read_buffer                                                             *)
(***************************************************************************)
\* class EDF
read_buffer(doc, buffer, header_only) ==
  LET hdr == string_from_buffer(buffer, Num(0), Num(header_bytes))
      d1 == read_header_from_string(doc, hdr)
      ch == string_from_buffer(buffer, Num(header_bytes), d1.num_header_bytes)
      c1 == <<Call("read_header_from_string")>>
      r2 == After(c1 \o <<Call("read_channel_header_from_string")>>,
                  read_channel_header_from_string(d1, ch))
      r3 == After(r2.calls \o <<Call("check_blob_size")>>, check_blob_size(r2.doc, buffer))
      r4 == After(r3.calls \o <<Call("read_blob_from_buffer")>>,
                  read_blob_from_buffer(r3.doc, buffer))
  IN  IF Eq(d1.num_channels, Num(0)) THEN Ret(d1, c1, Null)
      ELSE IF r2.outcome = "raise" THEN r2
      ELSE IF r3.outcome = "raise" THEN r3
      ELSE IF header_only THEN Ret(r3.doc, r3.calls, Undefined)
      ELSE r4

\* function EDF
read_buffer_cjs(doc, buffer, header_only) ==
  LET str == string_from_buffer(buffer, Num(0), Num(header_bytes))
      d1 == read_header_from_string(doc, str)
      ch == string_from_buffer(buffer, Num(header_bytes), d1.num_header_bytes)
      c1 == <<Call("read_header_from_string")>>
      r2 == After(c1 \o <<Call("read_channel_header_from_string")>>,
                  read_channel_header_from_string_cjs(d1, ch))
      r3 == After(r2.calls \o <<Call("check_blob_size")>>,
                  check_blob_size_cjs(r2.doc, buffer))
      r4 == After(r3.calls \o <<Call("read_blob_from_buffer")>>,
                  read_blob_from_buffer_cjs(r3.doc, buffer))
  IN  IF Eq(d1.num_channels, Num(0)) THEN Ret(d1, c1, Null)
      ELSE IF r2.outcome = "raise" THEN r2
      ELSE IF r3.outcome = "raise" THEN r3
      ELSE IF header_only THEN Ret(r3.doc, r3.calls, Undefined)
      ELSE r4

(***************************************************************************)
(* get annotations                                                         *)
(***************************************************************************)
\* The gate testing the reserved field itself instead of the derived type.
annotations_gate_on_reserved(doc) == doc.reserved = <<"E", "D", "F">>

annotations_gate(doc) == type(doc) = <<"E", "D", "F">>

annotations(doc) ==
  IF doc.reserved = Undefined THEN Raise(doc, <<>>, "TypeError")
  ELSE IF annotations_gate(doc)
  THEN Raise(doc, <<>>, "no annotations channel in EDF file")
  ELSE IF doc.channel_by_label = {} THEN Raise(doc, <<>>, "TypeError")
  ELSE IF AnnotationsLabel \notin DOMAIN TheOne(doc.channel_by_label).at
  THEN Raise(doc, <<>>, "TypeError")
  ELSE LET channel == doc.channels[TheOne(doc.channel_by_label).at[AnnotationsLabel]]
       IN  IF channel.blob = {} THEN Raise(doc, <<>>, "TypeError")
           ELSE Ret(doc, <<>>, parseAnnotations(Concat(TheOne(channel.blob))))

(***************************************************************************)
(* The state: one Document of each packaging, the outcome of the last call *)
(* on each, the last call and its input, the number of read_buffer calls,  *)
(* and whether read_blob_from_buffer was ever called from outside.         *)
(***************************************************************************)
NoOutcome == [outcome |-> "none", error |-> "", calls |-> <<>>, value |-> Undefined]

Outcome(r) == [outcome |-> r.outcome, error |-> r.error, calls |-> r.calls, value |-> r.value]

NoInput == [nch |-> 0, nrec |-> 0, size |-> "none", typ |-> "", ann |-> FALSE, dur |-> 0]

Init ==
  /\ edf = NewEDF
  /\ cjs = NewCJS
  /\ res = [edf |-> NoOutcome, cjs |-> NoOutcome]
  /\ last = [op |-> "new", p |-> NoInput, header_only |-> FALSE]
  /\ ncalls = 0
  /\ direct = FALSE

\* edf.read_buffer(buffer, header_only) and cjs.read_buffer(buffer, header_only).
\* The getter leaves both Documents as they were, so what read_buffer does
\* after it is what it does from the state before it: that state is the one
\* explored.
ReadBuffer ==
  \E p \in Inputs, header_only \in BOOLEAN :
    LET a == read_buffer(edf, Buffers[p], header_only)
        b == read_buffer_cjs(cjs, Buffers[p], header_only)
    IN  /\ ncalls < MaxCalls
        /\ last.op # "annotations"
        /\ edf' = a.doc
        /\ cjs' = b.doc
        /\ res' = [edf |-> Outcome(a), cjs |-> Outcome(b)]
        /\ last' = [op |-> "read_buffer", p |-> p, header_only |-> header_only]
        /\ ncalls' = ncalls + 1
        /\ UNCHANGED direct

\* edf.read_blob_from_buffer(buffer), called by the user of the class on the
\* buffer whose header and channel table read_buffer has just decoded.
ReadBlobFromBuffer ==
  /\ last.op = "read_buffer"
  /\ last.p.nch > 0
  /\ res.edf.error # "TypeError"
  /\ LET a == read_blob_from_buffer(edf, Buffers[last.p])
     IN  /\ edf' = a.doc
         /\ res' = [edf |-> Outcome(a), cjs |-> NoOutcome]
  /\ last' = [last EXCEPT !.op = "read_blob_from_buffer"]
  /\ direct' = TRUE
  /\ UNCHANGED <<cjs, ncalls>>

\* edf.annotations
Annotations ==
  /\ last.op # "annotations"
  /\ LET a == annotations(edf)
     IN  /\ edf' = a.doc
         /\ res' = [edf |-> Outcome(a), cjs |-> NoOutcome]
  /\ last' = [last EXCEPT !.op = "annotations"]
  /\ UNCHANGED <<cjs, ncalls, direct>>

Next == ReadBuffer \/ ReadBlobFromBuffer \/ Annotations

Spec == Init /\ [][Next]_vars

(***************************************************************************)
(* What the input of the last call holds, computed from the input itself.  *)
(***************************************************************************)
\* The bytes after the header and channel table.
BlobBytes(p) == 2 * ActualSamples(p) + (IF p.size = "odd" THEN 1 ELSE 0)

\* record_channel_map[c] for the channels of input p.
ChannelOffset(p, c) == SumTo([i \in 1..p.nch |-> i + 1], c)

\* The offset of field k (1-based) of channel c (0-based) in a table of N
\* channels laid out column by column.
RECURSIVE WidthsBefore(_)
WidthsBefore(k) == IF k = 1 THEN 0 ELSE WidthsBefore(k - 1) + channel_fields[k - 1].len

ColumnOffset(N, k, c) == N * WidthsBefore(k) + c * channel_fields[k].len

\* The values of the blob of input p at the indices [a, b) that it holds.
BlobRange(p, a, b) == [i \in 1..(Min(b, ActualSamples(p)) - Min(a, ActualSamples(p))) |-> a + i - 1]

\* The last call ran the blob decode of the class to its end.
BlobDecoded ==
  /\ res.edf.outcome = "return"
  /\ \/ last.op = "read_buffer" /\ ~last.header_only /\ last.p.nch > 0
     \/ last.op = "read_blob_from_buffer"

\* The indices of the calls of one kind in the log of the last call.
CallsOf(log, op) == {i \in 1..Len(log) : log[i].op = op}

(***************************************************************************)
(* C1  A file with channels whose blob is shorter than the header implies  *)
(* does not make read_buffer(buffer, false) raise: the call returns.       *)
(***************************************************************************)
C1_ShortBlobDoesNotRaise ==
  (/\ last.op = "read_buffer"
   /\ ~last.header_only
   /\ last.p.nch > 0
   /\ ActualSamples(last.p) < ExpectedSamples(last.p))
  => res.edf.outcome = "return" /\ res.cjs.outcome = "return"

(***************************************************************************)
(* C2  After read_blob_from_buffer, record r of channel c holds the        *)
(* samples of the blob at [r*spr + map[c], r*spr + map[c+1]), in order,    *)
(* for every channel c and every record r of the file.                     *)
(***************************************************************************)
C2_Deinterleaved ==
  BlobDecoded =>
    \A c \in 0..(last.p.nch - 1), r \in 0..(last.p.nrec - 1) :
      /\ edf.channels[c + 1].blob # {}
      /\ TheOne(edf.channels[c + 1].blob)[r + 1] =
           BlobRange(last.p, r * RecordSamples(last.p) + ChannelOffset(last.p, c),
                             r * RecordSamples(last.p) + ChannelOffset(last.p, c + 1))

(***************************************************************************)
(* C3  After the channel table of a file with N > 0 channels is decoded,   *)
(* field k of channel c is the coercion of the w_k characters of the table *)
(* at offset N*(w_0 + ... + w_(k-1)) + c*w_k, in both packagings.          *)
(***************************************************************************)
C3_ColumnarDecode ==
  (last.op = "read_buffer" /\ last.p.nch > 0) =>
    \A k \in 1..Len(channel_fields), c \in 0..(last.p.nch - 1) :
      LET at == ColumnOffset(last.p.nch, k, c)
          value == Coerce(channel_fields[k].type,
                          SubSeq(ChannelTableText(last.p), at + 1, at + channel_fields[k].len))
      IN  /\ edf.channels[c + 1][channel_fields[k].name] = value
          /\ cjs.channels[c + 1][channel_fields[k].name] = value

C3_Witness ==
  /\ last.op = "read_buffer"
  /\ last.p.nch = 2
  /\ edf.channels[1].label = <<"C", "h", "0">>
  /\ edf.channels[2].label = AnnotationsLabel
  /\ edf.channels[1].num_samples_per_record = Num(2)
  /\ edf.channels[2].num_samples_per_record = Num(3)
  /\ edf.channels[2].prefiltering = <<"H", "P", "1">>

(***************************************************************************)
(* C4  Once read_buffer has decoded the channel table of a file, channels  *)
(* has num_channels entries and channel_by_label holds only channels of    *)
(* that table.                                                             *)
(***************************************************************************)
C4_ChannelCount ==
  (last.op = "read_buffer" /\ last.p.nch > 0) =>
    /\ edf.num_channels = Num(last.p.nch)
    /\ Len(edf.channels) = last.p.nch
    /\ \A key \in DOMAIN TheOne(edf.channel_by_label).at :
         \E c \in 0..(last.p.nch - 1) :
           key = trim(ChannelFieldText(last.p, "label", c))

(***************************************************************************)
(* C5  read_buffer on a file that declares no channels returns, leaves an  *)
(* empty channel set, and calls none of the channel-table decode, the      *)
(* blob-size check and the blob decode, whatever header_only is.           *)
(***************************************************************************)
C5_ZeroChannelShortCircuit ==
  (last.op = "read_buffer" /\ last.p.nch = 0) =>
    /\ res.edf.outcome = "return"
    /\ res.edf.calls = <<Call("read_header_from_string")>>
    /\ edf.channels = <<>>

(***************************************************************************)
(* C6  Every run of check_blob_size leaves duration = record_duration *    *)
(* ((byteLength - num_header_bytes) / 2) / (sum of the channels'           *)
(* num_samples_per_record), whether or not the sizes agree and whatever    *)
(* num_records is; it returns the sample count exactly when they agree.    *)
(***************************************************************************)
C6_DurationFromActualBytes ==
  (last.op \in {"read_buffer", "read_blob_from_buffer"} /\ last.p.nch > 0) =>
    LET duration == Norm(last.p.dur * BlobBytes(last.p), 2 * RecordSamples(last.p))
        agree == BlobBytes(last.p) = 2 * ExpectedSamples(last.p)
        returned(log) == {log[i].key : i \in CallsOf(log, "return")}
    IN  /\ edf.duration = duration
        /\ returned(res.edf.calls) = IF agree THEN {Norm(BlobBytes(last.p), 2)} ELSE {}
        /\ last.op = "read_buffer" =>
             /\ cjs.duration = duration
             /\ returned(res.cjs.calls) = returned(res.edf.calls)
             /\ (res.edf.error = "SizeMismatch") = ~agree

C6_Witness ==
  /\ last.op = "read_buffer"
  /\ last.p.size = "odd"
  /\ res.edf.error = "SizeMismatch"
  /\ edf.duration # Num(last.p.dur * last.p.nrec)
  /\ edf.duration = Norm(last.p.dur * (2 * ExpectedSamples(last.p) + 1),
                         2 * RecordSamples(last.p))

(***************************************************************************)
(* C7  When read_blob_from_buffer catches the size mismatch, the duration  *)
(* after decoding is record_duration * num_records, the expected figure.   *)
(***************************************************************************)
C7_FallbackDurationExpected ==
  (last.op = "read_blob_from_buffer" /\ CallsOf(res.edf.calls, "catch") # {}) =>
    edf.duration = Num(last.p.dur * last.p.nrec)

(***************************************************************************)
(* C7, amended  When read_blob_from_buffer catches the size mismatch, it   *)
(* returns and the duration after decoding is the one check_blob_size      *)
(* computed from the samples actually in the blob.                         *)
(***************************************************************************)
C7_FallbackDurationActual ==
  (last.op = "read_blob_from_buffer" /\ CallsOf(res.edf.calls, "catch") # {}) =>
    /\ res.edf.outcome = "return"
    /\ edf.duration = Norm(last.p.dur * BlobBytes(last.p), 2 * RecordSamples(last.p))

C7_Witness ==
  /\ last.op = "read_blob_from_buffer"
  /\ CallsOf(res.edf.calls, "catch") # {}
  /\ last.p.size = "short"
  /\ edf.channels[1].blob # {}

(***************************************************************************)
(* C8  The annotations getter throws 'no annotations channel in EDF file'  *)
(* when the type is EDF (the first 5 characters of the reserved field,     *)
(* trimmed, or EDF when that is blank); when the type is EDF+C or EDF+D    *)
(* and channel_by_label holds 'EDF Annotations' it returns what            *)
(* parseAnnotations makes of that channel's blob.                          *)
(***************************************************************************)
TypeOfInput(p) == IF p.typ = "" THEN <<"E", "D", "F">> ELSE TypeText(p.typ)

HasAnnotationsChannel ==
  /\ edf.channel_by_label # {}
  /\ AnnotationsLabel \in DOMAIN TheOne(edf.channel_by_label).at

AnnotationsChannel == edf.channels[TheOne(edf.channel_by_label).at[AnnotationsLabel]]

C8_AnnotationsGating ==
  ncalls > 0 =>
    /\ type(edf) = TypeOfInput(last.p)
    /\ last.op = "annotations" =>
         /\ last.p.typ = "" =>
              /\ res.edf.outcome = "raise"
              /\ res.edf.error = "no annotations channel in EDF file"
         /\ (last.p.typ \in {"EDF+C", "EDF+D"} /\ HasAnnotationsChannel) =>
              /\ res.edf.outcome = "return"
              /\ res.edf.value = parseAnnotations(Concat(TheOne(AnnotationsChannel.blob)))

(***************************************************************************)
(* C8, amended  As C8, but the getter returns only when the blob of the    *)
(* 'EDF Annotations' channel has been allocated by a blob decode; before   *)
(* that (a header-only decode, a decode that raised) it throws.  The       *)
(* getter leaves both Documents as they were.                              *)
(***************************************************************************)
C8_AnnotationsGatingDecoded ==
  /\ [](ncalls > 0 =>
          /\ type(edf) = TypeOfInput(last.p)
          /\ last.op = "annotations" =>
               /\ last.p.typ = "" =>
                    /\ res.edf.outcome = "raise"
                    /\ res.edf.error = "no annotations channel in EDF file"
               /\ (last.p.typ \in {"EDF+C", "EDF+D"} /\ HasAnnotationsChannel) =>
                    IF AnnotationsChannel.blob = {}
                    THEN res.edf.outcome = "raise" /\ res.edf.error = "TypeError"
                    ELSE /\ res.edf.outcome = "return"
                         /\ res.edf.value =
                              parseAnnotations(Concat(TheOne(AnnotationsChannel.blob))))
  /\ [][last'.op = "annotations" => edf' = edf /\ cjs' = cjs]_vars

C8_Witness ==
  /\ last.op = "annotations"
  /\ last.p.typ = "EDF+D"
  /\ HasAnnotationsChannel
  /\ res.edf.outcome = "return"
  /\ res.edf.value = parseAnnotations(<<0, 1>>)

(***************************************************************************)
(* C9  After any sequence of read_buffer calls applied to one Document of  *)
(* each packaging, both ended the last call the same way and hold the same *)
(* header fields, channels, channel_by_label, samples, duration and        *)
(* sampling_rate.                                                          *)
(***************************************************************************)
C9_PackagingsAgree ==
  (last.op = "read_buffer" /\ ~direct) =>
    /\ res.edf.outcome = res.cjs.outcome
    /\ res.edf.error = res.cjs.error
    /\ [edf EXCEPT !.channels_set = TRUE] = [cjs EXCEPT !.channels_set = TRUE]

(***************************************************************************)
(* C10  In a run of read_blob_from_buffer on a file of N channels and R    *)
(* records: init is called once on each channel, all before the first      *)
(* set_record; set_record is called once for each (channel, record),       *)
(* records ascending and channels in declared order within a record; the   *)
(* sampling_rate map is written after the last set_record, one entry per   *)
(* label of channel_by_label.                                              *)
(***************************************************************************)
C10_StorageLifecycle ==
  BlobDecoded =>
    LET log == res.edf.calls
        inits == CallsOf(log, "init")
        sets == CallsOf(log, "set_record")
        rates == CallsOf(log, "sampling_rate")
        N == last.p.nch
        R == last.p.nrec
    IN  /\ \A c \in 0..(N - 1) : Cardinality({i \in inits : log[i].c = c}) = 1
        /\ \A i \in inits : log[i].c \in 0..(N - 1)
        /\ \A i \in inits, j \in sets : i < j
        /\ \A c \in 0..(N - 1), r \in 0..(R - 1) :
             Cardinality({i \in sets : log[i].c = c /\ log[i].r = r}) = 1
        /\ \A i \in sets : log[i].c \in 0..(N - 1) /\ log[i].r \in 0..(R - 1)
        /\ \A i, j \in sets :
             i < j => \/ log[i].r < log[j].r
                      \/ log[i].r = log[j].r /\ log[i].c < log[j].c
        /\ \A i \in rates, j \in sets \cup inits : j < i
        /\ \A i \in rates, j \in CallsOf(log, "sampling_rate = {}") : j < i
        /\ \A key \in DOMAIN TheOne(edf.channel_by_label).at :
             Cardinality({i \in rates : log[i].key = key}) = 1
        /\ \A i \in rates : log[i].key \in DOMAIN TheOne(edf.channel_by_label).at
        /\ DOMAIN TheOne(edf.sampling_rate) = DOMAIN TheOne(edf.channel_by_label).at
        /\ \A c \in 0..(N - 1) :
             /\ edf.channels[c + 1].blob # {}
             /\ Len(TheOne(edf.channels[c + 1].blob)) = R

C10_Witness ==
  /\ BlobDecoded
  /\ last.p.nch = 2
  /\ last.p.nrec = 2
  /\ Cardinality(CallsOf(res.edf.calls, "set_record")) = 4
  /\ Cardinality(CallsOf(res.edf.calls, "init")) = 2
  /\ Cardinality(CallsOf(res.edf.calls, "sampling_rate")) = 2

====
